---- MODULE Spec2Model ----
(***************************************************************************)
(* Model of otp_parser.py: the per-document statement parser               *)
(* (parse_single_pdf), the cross-document merge (build_all_transactions)   *)
(* and the run that persists the ledger (main).                            *)
(*                                                                         *)
(* Representation of the program's strings:                                *)
(*  - a date string "dd.mm.yyyy" is the tuple <<dd, mm, yyyy>>;            *)
(*  - a TransactionID string is the sequence of its decimal digits, so     *)
(*    that Python's string order and int()/str() can be computed;          *)
(*  - a decimal amount string ("1.234,56") is kept as a TLA+ string and    *)
(*    converted by to_float, which yields the value in cents.              *)
(***************************************************************************)
EXTENDS Integers, Sequences, FiniteSets, TLC

VARIABLES
  \* ---- the run: main / build_all_transactions ----
  pdf,          \* file name -> the record sequence parse_single_pdf returns for it
  pdf_files,    \* what glob.glob returns: the files of the pdf folder, in some order
  excel,        \* OUTPUT_EXCEL: [exists, rows]
  db,           \* finance.db: [exists, rows] of table "transactions"
  run,          \* locals of the last call of main()
  \* ---- the loop of build_all_transactions over the documents (lines 217-222) ----
  path,         \* the document parse_single_pdf is called with
  new_dfs,      \* all_new_dfs: the DataFrames appended so far
  \* ---- one call of parse_single_pdf ----
  pc, lines, page_words, idx, start_balance_set, previous_balance, rows, tx, df_pdf

loopVars == <<path, new_dfs>>
mergeVars == <<pdf, pdf_files, excel, db, run, path, new_dfs>>
parseVars == <<pc, lines, page_words, idx, start_balance_set, previous_balance, rows, tx, df_pdf>>
vars == <<pdf, pdf_files, excel, db, run, path, new_dfs,
          pc, lines, page_words, idx, start_balance_set, previous_balance, rows, tx, df_pdf>>

-----------------------------------------------------------------------------
(* Bounds of the model *)

\* rows in the documents of the pdf folder, all documents together
MaxDocRows == 2
\* rows of the spreadsheet that exists before the first run
MaxPersisted == 1
\* text lines of a page
MaxLines == 2
\* transaction lines of a document
MaxRows == 2
\* text lines of a page with continuation lines
MaxTextLines == 3
\* word boxes of a page handed to the layout resolver
MaxWords == 3

-----------------------------------------------------------------------------
(* Generic helpers *)

RECURSIVE SeqsUpTo(_, _)
SeqsUpTo(S, n) ==
  IF n = 0 THEN {<<>>}
  ELSE LET shorter == SeqsUpTo(S, n - 1)
       IN  shorter \cup {Append(s, x) : s \in {t \in shorter : Len(t) = n - 1}, x \in S}

RECURSIVE Perms(_)
Perms(S) ==
  IF S = {} THEN {<<>>}
  ELSE UNION {{<<x>> \o p : p \in Perms(S \ {x})} : x \in S}

Range(s) == {s[i] : i \in 1..Len(s)}

RECURSIVE Flatten(_)
Flatten(ss) ==
  IF ss = <<>> THEN <<>> ELSE Head(ss) \o Flatten(Tail(ss))

Ids(df) == {df[i].TransactionID : i \in 1..Len(df)}

-----------------------------------------------------------------------------
(* Values of the columns *)

NaT == -1          \* pandas' NaT: a date that errors="coerce" could not parse
NaN == "<NaN>"     \* pandas' NaN in a text column (an empty spreadsheet cell)

DocNames == {"a.pdf", "b.pdf"}
OldName == "old.pdf"

\* "2100901623", "2100901624", "0000000007": all match \d{10}
A_ID == <<2,1,0,0,9,0,1,6,2,3>>
B_ID == <<2,1,0,0,9,0,1,6,2,4>>
Z_ID == <<0,0,0,0,0,0,0,0,0,7>>
\* "11.07.2025", "01.08.2025", "31.02.2025": all match \d{2}\.\d{2}\.\d{4}
D_JUL == <<11, 7, 2025>>
D_AUG == <<1, 8, 2025>>
D_BAD == <<31, 2, 2025>>

\* The (Date, TransactionID, Description) of the transaction lines a statement
\* may carry; Description "" is a line whose free text is blank
StatementRows ==
  { [Date |-> D_JUL, TransactionID |-> A_ID, Description |-> "NAKUP"],
    [Date |-> D_JUL, TransactionID |-> A_ID, Description |-> ""],
    [Date |-> D_JUL, TransactionID |-> B_ID, Description |-> "NAKUP"],
    [Date |-> D_BAD, TransactionID |-> B_ID, Description |-> ""],
    [Date |-> D_AUG, TransactionID |-> Z_ID, Description |-> "NAKUP"],
    [Date |-> D_BAD, TransactionID |-> Z_ID, Description |-> "PRILIV"] }

\* Python's < on str, for strings of digits
RECURSIVE StrLess(_, _)
StrLess(a, b) ==
  IF b = <<>> THEN FALSE
  ELSE IF a = <<>> THEN TRUE
  ELSE IF Head(a) # Head(b) THEN Head(a) < Head(b)
  ELSE StrLess(Tail(a), Tail(b))

\* str(int(s)) for a string of digits: the leading zeros go
RECURSIVE IntStr(_)
IntStr(s) ==
  IF Len(s) > 1 /\ Head(s) = 0 THEN IntStr(Tail(s)) ELSE s

IsLeap(y) == (y % 4 = 0 /\ y % 100 # 0) \/ y % 400 = 0

DaysInMonth(m, y) ==
  IF m = 2 THEN (IF IsLeap(y) THEN 29 ELSE 28)
  ELSE IF m \in {4, 6, 9, 11} THEN 30 ELSE 31

\* pd.to_datetime(Date, format="%d.%m.%Y", errors="coerce"); a parsed date is
\* yyyymmdd, which orders as the Timestamp does
to_datetime(d) ==
  IF d[2] \in 1..12 /\ d[1] \in 1..DaysInMonth(d[2], d[3])
  THEN d[3] * 10000 + d[2] * 100 + d[1]
  ELSE NaT

-----------------------------------------------------------------------------
(* build_all_transactions *)

\* a record of parse_single_pdf's DataFrame, reduced to the columns the merge
\* reads (TransactionID, Date) and two it only carries (SourceFile,
\* Description); DateISO is the column line 255 adds, null until then
NewRow(r, file) ==
  [SourceFile |-> file, Date |-> r.Date, TransactionID |-> r.TransactionID,
   Description |-> r.Description, DateISO |-> NaT]

\* df.to_excel: text goes to text cells, NaN to an empty cell
to_excel(df) ==
  [i \in 1..Len(df) |->
     [df[i] EXCEPT !.Description = IF @ = NaN THEN "" ELSE @]]

\* pd.read_excel, then TransactionID.astype(str): a column of digit strings
\* is inferred as integers, an empty cell is NaN
read_excel(cells) ==
  [i \in 1..Len(cells) |->
     [cells[i] EXCEPT !.TransactionID = IntStr(@),
                      !.Description = IF @ = "" THEN NaN ELSE @]]

\* the non-empty DataFrames of the files, in glob order
RECURSIVE all_new_dfs(_, _)
all_new_dfs(files, pdfs) ==
  IF files = <<>> THEN <<>>
  ELSE IF pdfs[Head(files)] # <<>>
       THEN <<pdfs[Head(files)]>> \o all_new_dfs(Tail(files), pdfs)
       ELSE all_new_dfs(Tail(files), pdfs)

df_new_of(files, pdfs) == Flatten(all_new_dfs(files, pdfs))

df_existing_of(xl) == IF xl.exists THEN read_excel(xl.rows) ELSE <<>>

\* pd.concat([df_existing, df_new]) or df_new alone
concat_of(files, pdfs, xl) == df_existing_of(xl) \o df_new_of(files, pdfs)

RECURSIVE drop_duplicates_keep_first(_)
drop_duplicates_keep_first(df) ==
  IF df = <<>> THEN <<>>
  ELSE LET init == SubSeq(df, 1, Len(df) - 1)
           last == df[Len(df)]
       IN  IF \E j \in 1..Len(init) : init[j].TransactionID = last.TransactionID
           THEN drop_duplicates_keep_first(init)
           ELSE Append(drop_duplicates_keep_first(init), last)

RECURSIVE drop_duplicates_per_file(_)
drop_duplicates_per_file(df) ==
  IF df = <<>> THEN <<>>
  ELSE IF \E j \in 2..Len(df) : /\ df[j].TransactionID = df[1].TransactionID
                                 /\ df[j].SourceFile = df[1].SourceFile
       THEN drop_duplicates_per_file(Tail(df))
       ELSE <<Head(df)>> \o drop_duplicates_per_file(Tail(df))

\* df.drop_duplicates(subset=["TransactionID"], keep="last")
RECURSIVE drop_duplicates(_)
drop_duplicates(df) ==
  IF df = <<>> THEN <<>>
  ELSE IF \E j \in 2..Len(df) : df[j].TransactionID = df[1].TransactionID
       THEN drop_duplicates(Tail(df))
       ELSE <<Head(df)>> \o drop_duplicates(Tail(df))

\* df_all["DateISO"] = pd.to_datetime(df_all["Date"], ...)
with_DateISO(df) ==
  [i \in 1..Len(df) |-> [df[i] EXCEPT !.DateISO = to_datetime(df[i].Date)]]

SortsBefore_id_only(a, b) == StrLess(a.TransactionID, b.TransactionID)

\* the order of sort_values(["DateISO", "TransactionID"]): NaT last
SortsBefore(a, b) ==
  \/ a.DateISO # NaT /\ (b.DateISO = NaT \/ a.DateISO < b.DateISO)
  \/ a.DateISO = b.DateISO /\ StrLess(a.TransactionID, b.TransactionID)

RECURSIVE InsertRow(_, _)
InsertRow(sorted, r) ==
  IF sorted = <<>> THEN <<r>>
  ELSE IF SortsBefore(r, Head(sorted))
       THEN <<r>> \o sorted
       ELSE <<Head(sorted)>> \o InsertRow(Tail(sorted), r)

sort_values_none(df) == df

\* df.sort_values(["DateISO", "TransactionID"]).reset_index(drop=True)
RECURSIVE sort_values(_)
sort_values(df) ==
  IF df = <<>> THEN <<>>
  ELSE InsertRow(sort_values(SubSeq(df, 1, Len(df) - 1)), df[Len(df)])

build_all_transactions(files, pdfs, xl) ==
  IF files = <<>> THEN <<>>
  ELSE IF all_new_dfs(files, pdfs) = <<>> THEN <<>>
  ELSE sort_values(with_DateISO(drop_duplicates(concat_of(files, pdfs, xl))))

-----------------------------------------------------------------------------
(* Line grammar and numbers of parse_single_pdf *)

\* Python's None, for a regex group that did not take part in the match
None == "None"
\* determine_amount_sign_from_layout returning None
NoSign == 0
\* previous_balance: <<>> is None, <<c>> is the float of c cents
NoBalance == <<>>

ROW_Y_TOLERANCE == 1
COLUMN_SPLIT_X == 360

\* decimal tokens of the model: the amounts TX_PATTERN's groups 4 and 5 match
\* and the balances its group 6 and START_BALANCE_PATTERN's group 1 match
AmountStrs == {"0,00", "0,03"}
BalanceStrs == {"0,00", "0,01", "0,03", "0,04"}

\* to_float, in cents: s.replace(".", "").replace(",", ".") read as a number
to_float(s) ==
  CASE s = "0,00" -> 0
    [] s = "0,01" -> 1
    [] s = "0,03" -> 3
    [] s = "0,04" -> 4
    [] s = "-0,02" -> -2
    [] s = "1.000,00" -> 100000

\* AMOUNT_FIELD_PATTERN.fullmatch: digits, thousands groups, comma, two digits
\* and no sign
AMOUNT_FIELD_PATTERN(s) == s \in {"0,00", "0,01", "0,03", "0,04", "1.000,00"}

Abs(n) == IF n < 0 THEN -n ELSE n

\* The smaller value c (in cents, below 16) of the pairs {c, c + 1} for which
\* abs(x - y) <= 0.01 is true of the doubles nearest to c/100 and (c + 1)/100
OneCentAccepted == {0, 1, 2, 5, 7, 8, 10, 11, 14}

\* abs(abs(diff_amount) - raw_amount_value) <= 0.01 in IEEE doubles (line 171)
WithinTolerance(diff_amount, raw_amount_value) ==
  LET a == Abs(diff_amount)
      gap == Abs(a - raw_amount_value)
  IN  \/ gap = 0
      \/ gap = 1 /\ (IF a < raw_amount_value THEN a ELSE raw_amount_value) \in OneCentAccepted

\* what TX_PATTERN's groups 4 and 5 hold for a line with the given decimal
\* tokens between the reference and the balance: the first optional group
\* takes the first token
Dobro(tokens) == IF Len(tokens) >= 1 THEN tokens[1] ELSE None
Breme(tokens) == IF Len(tokens) >= 2 THEN tokens[2] ELSE None

TokenLists == SeqsUpTo(AmountStrs, 2)

\* kinds of text line
\*   TX      matches TX_PATTERN
\*   OPEN    matches START_BALANCE_PATTERN
\*   FOOTER  contains one of footer_tokens
\*   SLASH   is "/" after strip()
\*   BLANK   is empty after strip()
\*   TEXT    any other line
LineKinds == {"TX", "OPEN", "FOOTER", "SLASH", "BLANK", "TEXT"}

\* the stripped text of the TEXT line at position i of its page
LineText(i) == <<"text of line", i>>

-----------------------------------------------------------------------------
(* determine_amount_sign_from_layout (lines 49-79) *)

IdWord(txid, x, y) == [text |-> <<"id", txid>>, x0 |-> x, top |-> y]
NumWord(s, x, y) == [text |-> <<"num", s>>, x0 |-> x, top |-> y]

\* row_words.sort(key=x0): stable insertion by x0
RECURSIVE InsertWord(_, _)
InsertWord(sorted, w) ==
  IF sorted = <<>> THEN <<w>>
  ELSE IF w.x0 < Head(sorted).x0
       THEN <<w>> \o sorted
       ELSE <<Head(sorted)>> \o InsertWord(Tail(sorted), w)

RECURSIVE SortByX0(_)
SortByX0(ws) ==
  IF ws = <<>> THEN <<>>
  ELSE InsertWord(SortByX0(SubSeq(ws, 1, Len(ws) - 1)), ws[Len(ws)])

\* the loop of lines 73-77 over the sorted row
RECURSIVE FirstAmountSign(_, _, _)
FirstAmountSign(row_words, amount_str, balance_x) ==
  IF row_words = <<>> THEN NoSign
  ELSE LET candidate == Head(row_words)
       IN  IF candidate.text = <<"num", amount_str>>
              /\ ~(balance_x # <<>> /\ candidate.x0 >= balance_x[1])
           THEN (IF candidate.x0 < COLUMN_SPLIT_X THEN -1 ELSE 1)
           ELSE FirstAmountSign(Tail(row_words), amount_str, balance_x)

determine_amount_sign_from_layout(words, txid, amount_str, balance_str) ==
  IF \A i \in 1..Len(words) : words[i].text # <<"id", txid>> THEN NoSign
  ELSE LET first == CHOOSE i \in 1..Len(words) :
                      /\ words[i].text = <<"id", txid>>
                      /\ \A j \in 1..(i - 1) : words[j].text # <<"id", txid>>
           row_top == words[first].top
           InRow(w) == Abs(w.top - row_top) <= ROW_Y_TOLERANCE
           IsBalance(w) == InRow(w) /\ w.text = <<"num", balance_str>>
           IsAmount(w) == InRow(w) /\ w.text[1] = "num" /\ AMOUNT_FIELD_PATTERN(w.text[2])
           balances == SelectSeq(words, IsBalance)
           balance_x == IF balances = <<>> THEN <<>> ELSE <<balances[1].x0>>
           row_words == SelectSeq(words, IsAmount)
       IN  IF row_words = <<>> THEN NoSign
           ELSE FirstAmountSign(SortByX0(row_words), amount_str, balance_x)

-----------------------------------------------------------------------------
(* parse_single_pdf: one transaction line (lines 122-193) *)

\* lines 126-134: amount_str
AmountStrOf(dobro_str, breme_str) ==
  IF dobro_str # None THEN dobro_str
  ELSE IF breme_str # None THEN breme_str
  ELSE "0,00"

ColumnSign_else_debit(dobro_str, breme_str) ==
  IF dobro_str # None THEN 1 ELSE -1

\* lines 126-134: amount_sign
ColumnSign(dobro_str, breme_str) ==
  IF dobro_str # None THEN 1
  ELSE IF breme_str # None THEN -1
  ELSE 1

\* lines 139-140
ProvisionalSign(layout_sign, column_sign) ==
  IF layout_sign # NoSign THEN layout_sign ELSE column_sign

RECURSIVE Absorb_past_boundary(_, _, _)
Absorb_past_boundary(ls, k, extra_lines) ==
  IF k > Len(ls) THEN [look_ahead |-> k, extra_lines |-> extra_lines]
  ELSE IF ls[k] = "BLANK" THEN Absorb_past_boundary(ls, k + 1, extra_lines)
  ELSE IF ls[k] = "TX" \/ ls[k] = "FOOTER"
       THEN [look_ahead |-> k + 1, extra_lines |-> extra_lines]
  ELSE IF ls[k] = "SLASH" THEN Absorb_past_boundary(ls, k + 1, extra_lines)
  ELSE Absorb_past_boundary(ls, k + 1, Append(extra_lines, LineText(k)))

RECURSIVE Absorb_keep_slash(_, _, _)
Absorb_keep_slash(ls, k, extra_lines) ==
  IF k > Len(ls) THEN [look_ahead |-> k, extra_lines |-> extra_lines]
  ELSE IF ls[k] = "BLANK" THEN Absorb_keep_slash(ls, k + 1, extra_lines)
  ELSE IF ls[k] = "TX" \/ ls[k] = "FOOTER"
       THEN [look_ahead |-> k, extra_lines |-> extra_lines]
  ELSE Absorb_keep_slash(ls, k + 1, Append(extra_lines, LineText(k)))

\* lines 144-159: the look-ahead from position k; extra_lines so far
RECURSIVE Absorb(_, _, _)
Absorb(ls, k, extra_lines) ==
  IF k > Len(ls) THEN [look_ahead |-> k, extra_lines |-> extra_lines]
  ELSE IF ls[k] = "BLANK" THEN Absorb(ls, k + 1, extra_lines)
  ELSE IF ls[k] = "TX" \/ ls[k] = "FOOTER"
       THEN [look_ahead |-> k, extra_lines |-> extra_lines]
  ELSE IF ls[k] = "SLASH" THEN Absorb(ls, k + 1, extra_lines)
  ELSE Absorb(ls, k + 1, Append(extra_lines, LineText(k)))

\* lines 123, 161-164, 190: the parts " ".join puts together; "" is no part
DescriptionOf(desc, extra_lines) ==
  IF extra_lines # <<>>
  THEN (IF desc # "" /\ desc # "." THEN <<(<<"desc", desc>>)>> ELSE <<>>) \o extra_lines
  ELSE (IF desc # "" THEN <<(<<"desc", desc>>)>> ELSE <<>>)

Reconciled_never(previous, balance_value, raw_amount_value) == FALSE

\* lines 169-171: the delta replaces the provisional amount
Reconciled(previous, balance_value, raw_amount_value) ==
  /\ previous # NoBalance
  /\ WithinTolerance(balance_value - previous[1], raw_amount_value)

\* line 175
FinalSign(signed_amount) == IF signed_amount >= 0 THEN 1 ELSE -1

\* the locals of the loop body when it reaches line 193
TxLocals(words, previous, txid, tokens, balance_str) ==
  LET dobro_str == Dobro(tokens)
      breme_str == Breme(tokens)
      amount_str == AmountStrOf(dobro_str, breme_str)
      column_sign == ColumnSign(dobro_str, breme_str)
      layout_sign == determine_amount_sign_from_layout(words, txid, amount_str, balance_str)
      amount_sign == ProvisionalSign(layout_sign, column_sign)
      balance_value == to_float(balance_str)
      raw_amount_value == to_float(amount_str)
      provisional == raw_amount_value * amount_sign
      adopted == Reconciled(previous, balance_value, raw_amount_value)
      diff_amount == IF previous # NoBalance THEN balance_value - previous[1] ELSE 0
      signed_amount == IF adopted THEN diff_amount ELSE provisional
  IN  [matched |-> TRUE, dobro_str |-> dobro_str, breme_str |-> breme_str,
       amount_str |-> amount_str, balance_str |-> balance_str,
       column_sign |-> column_sign, layout_sign |-> layout_sign,
       amount_sign |-> amount_sign, previous |-> previous,
       balance_value |-> balance_value, raw_amount_value |-> raw_amount_value,
       diff_amount |-> diff_amount, adopted |-> adopted,
       signed_amount |-> signed_amount, final_sign |-> FinalSign(signed_amount)]

NoTx ==
  [matched |-> FALSE, dobro_str |-> None, breme_str |-> None,
   amount_str |-> "0,00", balance_str |-> "0,00",
   column_sign |-> 1, layout_sign |-> NoSign, amount_sign |-> 1, previous |-> NoBalance,
   balance_value |-> 0, raw_amount_value |-> 0,
   diff_amount |-> 0, adopted |-> FALSE, signed_amount |-> 0, final_sign |-> 1]

\* lines 176-192: the record appended to rows
RowOf(t, txid, date, description) ==
  [SourceFile |-> path, Date |-> date, TransactionID |-> txid,
   AccountOrRef |-> "SI56023030018888678",
   DobroRaw |-> IF t.final_sign >= 0 THEN t.amount_str ELSE "",
   BremeRaw |-> IF t.final_sign < 0 THEN t.amount_str ELSE "",
   AmountRaw |-> t.amount_str, AmountSign |-> t.final_sign,
   BalanceRaw |-> t.balance_str, Description |-> description]

AmountOf_unsigned(row) == to_float(row.AmountRaw)

\* line 201
AmountOf(row) == to_float(row.AmountRaw) * row.AmountSign

\* lines 196-207: the DataFrame returned
DataFrameOf(rs) ==
  [i \in 1..Len(rs) |->
     [SourceFile |-> rs[i].SourceFile, Date |-> rs[i].Date,
      TransactionID |-> rs[i].TransactionID, AccountOrRef |-> rs[i].AccountOrRef,
      DobroRaw |-> rs[i].DobroRaw, BremeRaw |-> rs[i].BremeRaw,
      AmountRaw |-> rs[i].AmountRaw, AmountSign |-> rs[i].AmountSign,
      BalanceRaw |-> rs[i].BalanceRaw, Description |-> rs[i].Description,
      Amount |-> AmountOf(rs[i]), Balance |-> to_float(rs[i].BalanceRaw),
      Year |-> rs[i].Date[3], Month |-> rs[i].Date[2]]]

-----------------------------------------------------------------------------
(* main: one run over the pdf folder *)

NoFile == [exists |-> FALSE, rows |-> <<>>]

NoRun ==
  [called |-> FALSE, files |-> <<>>, xl |-> NoFile, df_existing |-> <<>>, df_new |-> <<>>,
   df_all |-> <<>>, saved |-> FALSE]

\* the locals of main() and build_all_transactions() when main returns
RunOf(wrote) ==
  [called |-> TRUE, files |-> pdf_files, xl |-> excel,
   df_existing |-> df_existing_of(excel),
   df_new |-> df_new_of(pdf_files, pdf),
   df_all |-> build_all_transactions(pdf_files, pdf, excel),
   saved |-> wrote]

\* parse_single_pdf is not running
ParseIdle ==
  /\ pc = "idle" /\ lines = <<>> /\ page_words = <<>> /\ idx = 0
  /\ start_balance_set = FALSE /\ previous_balance = <<>> /\ rows = <<>>
  /\ tx = NoTx /\ df_pdf = <<>>

\* the documents of the folder: the rows of a statement sequence, split over
\* the two files
FolderOf(s, k) ==
  [d \in DocNames |->
     IF d = "a.pdf"
     THEN [i \in 1..k |-> NewRow(s[i], d)]
     ELSE [i \in 1..(Len(s) - k) |-> NewRow(s[k + i], d)]]

\* a spreadsheet an earlier run wrote from another document
PersistedRow(r) ==
  [SourceFile |-> OldName, Date |-> r.Date, TransactionID |-> r.TransactionID,
   Description |-> r.Description, DateISO |-> to_datetime(r.Date)]

\* no document is being parsed
NoPath == ""

InitRun ==
  /\ \E s \in SeqsUpTo(StatementRows, MaxDocRows) : \E k \in 0..Len(s) :
        pdf = FolderOf(s, k)
  /\ \E present \in SUBSET DocNames :
        /\ \A d \in DocNames : pdf[d] # <<>> => d \in present
        /\ pdf_files \in Perms(present)
  /\ \/ excel = NoFile
     \/ \E s \in SeqsUpTo(StatementRows, MaxPersisted) :
          excel = [exists |-> TRUE, rows |-> [i \in 1..Len(s) |-> PersistedRow(s[i])]]
  /\ db = NoFile
  /\ run = NoRun
  /\ path = NoPath /\ new_dfs = <<>>

Init == InitRun /\ ParseIdle

\* main(), the spreadsheet written (lines 261-285)
Main ==
  /\ pc = "idle"
  /\ run' = RunOf(TRUE)
  /\ IF run'.df_all = <<>>
     THEN UNCHANGED <<excel, db>>
     ELSE /\ excel' = [exists |-> TRUE, rows |-> to_excel(run'.df_all)]
          /\ db' = [exists |-> TRUE, rows |-> run'.df_all]
  /\ UNCHANGED <<pdf, pdf_files>>
  /\ UNCHANGED loopVars
  /\ UNCHANGED parseVars

\* main(), to_excel raising PermissionError (lines 274-275)
MainExcelLocked ==
  /\ pc = "idle"
  /\ run' = RunOf(FALSE)
  /\ run'.df_all # <<>>
  /\ db' = [exists |-> TRUE, rows |-> run'.df_all]
  /\ UNCHANGED <<pdf, pdf_files, excel>>
  /\ UNCHANGED loopVars
  /\ UNCHANGED parseVars

\* the file system lists the same folder in another order
Reglob ==
  /\ pc = "idle"
  /\ pdf_files' \in Perms(Range(pdf_files)) \ {pdf_files}
  /\ UNCHANGED <<pdf, excel, db, run>>
  /\ UNCHANGED loopVars
  /\ UNCHANGED parseVars

Next == Main \/ MainExcelLocked \/ Reglob

Spec == Init /\ [][Next]_vars

-----------------------------------------------------------------------------
(* main: runs that raise *)

\* the locals of main() when parse_single_pdf raised inside
\* build_all_transactions: nothing was merged
RunRaised ==
  [called |-> TRUE, files |-> pdf_files, xl |-> excel, df_existing |-> <<>>,
   df_new |-> <<>>, df_all |-> <<>>, saved |-> FALSE]

\* main(), pdfplumber.open or a page extraction raising for the document bad
\* (lines 97-102): no except clause on the way up (lines 218-220, 265), so
\* the exception leaves main() before either sink is written
MainOpenFailsAt(bad) ==
  /\ pc = "idle"
  /\ \E i \in 1..Len(pdf_files) : pdf_files[i] = bad
  /\ run' = RunRaised
  /\ UNCHANGED <<pdf, pdf_files, excel, db>>
  /\ UNCHANGED loopVars
  /\ UNCHANGED parseVars

MainOpenFails == \E bad \in DocNames : MainOpenFailsAt(bad)

\* main(), to_excel raising an exception that is no PermissionError (the disk
\* is full, openpyxl is missing): the except clause of line 274 does not
\* apply and the exception leaves main() before line 278
MainExcelFails ==
  /\ pc = "idle"
  /\ run' = RunOf(FALSE)
  /\ run'.df_all # <<>>
  /\ UNCHANGED <<pdf, pdf_files, excel, db>>
  /\ UNCHANGED loopVars
  /\ UNCHANGED parseVars

NextFaults == Main \/ MainExcelLocked \/ Reglob \/ MainOpenFails \/ MainExcelFails

SpecFaults == Init /\ [][NextFaults]_vars

\* between two runs a document is taken out of the pdf folder
RemoveDocument ==
  /\ pc = "idle"
  /\ \E i \in 1..Len(pdf_files) :
       pdf_files' = SubSeq(pdf_files, 1, i - 1) \o SubSeq(pdf_files, i + 1, Len(pdf_files))
  /\ UNCHANGED <<pdf, excel, db, run>>
  /\ UNCHANGED loopVars
  /\ UNCHANGED parseVars

NextFolder == Main \/ MainExcelLocked \/ Reglob \/ RemoveDocument

SpecFolder == Init /\ [][NextFolder]_vars

-----------------------------------------------------------------------------
(* parse_single_pdf: one document, page by page *)

\* the transaction ids, descriptions and word boxes of the documents parsed
ParseIds == {A_ID}
ParseDescs == {"NAKUP"}
\* extract_words() of a page: nothing; the row of another transaction; the row
\* of the transaction with its amount printed in the left or the right column
PageWordChoices ==
  { <<>>,
    <<IdWord(B_ID, 40, 100), NumWord("0,03", 320, 100)>>,
    <<IdWord(A_ID, 40, 100), NumWord("0,03", 320, 101), NumWord("0,00", 380, 100),
      NumWord("1.000,00", 450, 100)>>,
    <<IdWord(A_ID, 40, 100), NumWord("0,00", 320, 100), NumWord("0,03", 380, 99),
      NumWord("1.000,00", 450, 100)>> }

CountTx(ls) == Cardinality({i \in 1..Len(ls) : ls[i] = "TX"})

\* no main() is running: the folder and the sinks are out of the picture
RunIdle ==
  /\ pdf = [d \in DocNames |-> <<>>] /\ pdf_files = <<>>
  /\ excel = NoFile /\ db = NoFile /\ run = NoRun

\* lines 84-87: the state parse_single_pdf starts a document with
InitParse ==
  /\ RunIdle
  /\ path = "a.pdf" /\ new_dfs = <<>>
  /\ pc = "pages" /\ lines = <<>> /\ page_words = <<>> /\ idx = 0
  /\ start_balance_set = FALSE /\ previous_balance = NoBalance /\ rows = <<>>
  /\ tx = NoTx /\ df_pdf = <<>>

\* lines 98-114: the next page has text; the opening-balance scan
OpenPageOf(texts, word_lists) ==
  /\ pc = "pages"
  /\ \E ls \in texts :
       /\ Len(rows) + CountTx(ls) <= MaxRows
       /\ lines' = ls
       /\ IF ~start_balance_set /\ \E i \in 1..Len(ls) : ls[i] = "OPEN"
          THEN /\ \E b \in BalanceStrs : previous_balance' = <<to_float(b)>>
               /\ start_balance_set' = TRUE
          ELSE UNCHANGED <<previous_balance, start_balance_set>>
  /\ page_words' \in word_lists
  /\ idx' = 1
  /\ pc' = "scan"
  /\ UNCHANGED <<rows, tx, df_pdf>>
  /\ UNCHANGED mergeVars

OpenPage(texts) == OpenPageOf(texts, PageWordChoices)

\* lines 99-101: the next page has no text
OpenEmptyPage ==
  /\ pc = "pages"
  /\ UNCHANGED vars

\* lines 116-120: the line is no transaction line
SkipLine ==
  /\ pc = "scan" /\ idx <= Len(lines)
  /\ lines[idx] # "TX"
  /\ idx' = idx + 1
  /\ UNCHANGED <<pc, lines, page_words, start_balance_set, previous_balance, rows, tx, df_pdf>>
  /\ UNCHANGED mergeVars

\* lines 116-193: the line is a transaction line
MatchLineOf(ids, token_lists, balance_strs, descs) ==
  /\ pc = "scan" /\ idx <= Len(lines)
  /\ lines[idx] = "TX"
  /\ \E txid \in ids, tokens \in token_lists, balance_str \in balance_strs, desc \in descs :
       LET t == TxLocals(page_words, previous_balance, txid, tokens, balance_str)
           absorbed == Absorb(lines, idx + 1, <<>>)
       IN  /\ tx' = t
           /\ previous_balance' = <<t.balance_value>>
           /\ rows' = Append(rows, RowOf(t, txid, D_JUL,
                                          DescriptionOf(desc, absorbed.extra_lines)))
           /\ idx' = absorbed.look_ahead
  /\ UNCHANGED <<pc, lines, page_words, start_balance_set, df_pdf>>
  /\ UNCHANGED mergeVars

MatchLine(ids, descs) == MatchLineOf(ids, TokenLists, BalanceStrs, descs)

\* line 115: the page has no more lines; the locals of the loop body are dead
EndPage ==
  /\ pc = "scan" /\ idx > Len(lines)
  /\ pc' = "pages" /\ lines' = <<>> /\ page_words' = <<>> /\ idx' = 0
  /\ tx' = NoTx
  /\ UNCHANGED <<start_balance_set, previous_balance, rows, df_pdf>>
  /\ UNCHANGED mergeVars

\* lines 196-207: no more pages; the DataFrame is returned
Finish ==
  /\ pc = "pages"
  /\ pc' = "done"
  /\ df_pdf' = DataFrameOf(rows)
  /\ UNCHANGED <<lines, page_words, idx, start_balance_set, previous_balance, rows, tx>>
  /\ UNCHANGED mergeVars

\* the page texts of the statements parsed here: opening-balance lines, then
\* transaction lines
StatementPages ==
  {ls \in SeqsUpTo({"OPEN", "TX"}, MaxLines) \ {<<>>} :
     \A i, j \in 1..Len(ls) : (i < j /\ ls[i] = "TX") => ls[j] = "TX"}

NextParse ==
  \/ OpenPage(StatementPages)
  \/ OpenEmptyPage
  \/ SkipLine
  \/ MatchLine(ParseIds, ParseDescs)
  \/ EndPage
  \/ Finish

SpecParse == InitParse /\ [][NextParse]_vars

-----------------------------------------------------------------------------
(* parse_single_pdf: pages whose transaction lines have continuation lines *)

\* the lines of such a page: extract_text() without layout joins the words of
\* a line with single blanks, so a line has no blank at either end and
\* TX_PATTERN sees the same text in the main loop (line 117) and in the
\* look-ahead (line 152)
TextLineKinds == {"TX", "FOOTER", "SLASH", "BLANK", "TEXT"}
TextPages == SeqsUpTo(TextLineKinds, MaxTextLines) \ {<<>>}
TextDescs == {"NAKUP", "."}

NextLines ==
  \/ OpenPageOf(TextPages, {<<>>})
  \/ OpenEmptyPage
  \/ SkipLine
  \/ MatchLineOf(ParseIds, {<<"0,03">>}, {"0,03"}, TextDescs)
  \/ EndPage
  \/ Finish

SpecLines == InitParse /\ [][NextLines]_vars

-----------------------------------------------------------------------------
(* determine_amount_sign_from_layout called on its own *)

\* the word boxes of a page: the id token, and decimal words in the debit
\* column, on the column boundary and in the balance column, on the row of the
\* id token, one unit below it and two units below it
LayoutWords ==
  {IdWord(A_ID, 40, 100)}
    \cup {NumWord(s, x, y) : s \in {"0,00", "0,03"}, x \in {320, 360, 450},
                              y \in {100, 101, 102}}

\* the arguments of the call of lines 136-138
InitLayout ==
  /\ RunIdle
  /\ path = "a.pdf" /\ new_dfs = <<>>
  /\ pc = "layout" /\ lines = <<>> /\ idx = 0
  /\ start_balance_set = FALSE /\ previous_balance = NoBalance /\ rows = <<>>
  /\ df_pdf = <<>>
  /\ page_words \in SeqsUpTo(LayoutWords, MaxWords)
  /\ \E balance_str \in {"0,00", "0,03"} :
       tx = [NoTx EXCEPT !.amount_str = "0,03", !.balance_str = balance_str]

\* lines 136-138: the call returns
Resolve ==
  /\ pc = "layout"
  /\ pc' = "returned"
  /\ tx' = [tx EXCEPT !.layout_sign =
               determine_amount_sign_from_layout(page_words, A_ID,
                                                 tx.amount_str, tx.balance_str)]
  /\ UNCHANGED <<lines, page_words, idx, start_balance_set, previous_balance, rows, df_pdf>>
  /\ UNCHANGED mergeVars

NextLayout == Resolve

SpecLayout == InitLayout /\ [][NextLayout]_vars

-----------------------------------------------------------------------------
(* build_all_transactions: the calls of parse_single_pdf, one after another *)

\* the position of a document in the list glob.glob returned
IndexOf(f) == CHOOSE i \in 1..Len(pdf_files) : pdf_files[i] = f

\* lines 212, 217-218 and 84-87: the loop calls parse_single_pdf with the
\* first document
InitBatch ==
  /\ pdf = [d \in DocNames |-> <<>>]
  /\ pdf_files \in Perms(DocNames)
  /\ excel = NoFile /\ db = NoFile /\ run = NoRun
  /\ path = pdf_files[1] /\ new_dfs = <<>>
  /\ pc = "pages" /\ lines = <<>> /\ page_words = <<>> /\ idx = 0
  /\ start_balance_set = FALSE /\ previous_balance = NoBalance /\ rows = <<>>
  /\ tx = NoTx /\ df_pdf = <<>>

\* lines 221-222: the DataFrame returned is kept unless it is empty
Appended == IF df_pdf # <<>> THEN Append(new_dfs, df_pdf) ELSE new_dfs

NextDocument_shared ==
  /\ pc = "done" /\ IndexOf(path) < Len(pdf_files)
  /\ new_dfs' = Appended
  /\ path' = pdf_files[IndexOf(path) + 1]
  /\ pc' = "pages" /\ lines' = <<>> /\ page_words' = <<>> /\ idx' = 0
  /\ start_balance_set' = FALSE
  /\ tx' = NoTx /\ df_pdf' = <<>>
  /\ UNCHANGED <<previous_balance, rows>>
  /\ UNCHANGED <<pdf, pdf_files, excel, db, run>>

\* lines 218-222, then 84-87: the call returned; parse_single_pdf is called
\* with the next document and starts with its locals initialised
NextDocument ==
  /\ pc = "done" /\ IndexOf(path) < Len(pdf_files)
  /\ new_dfs' = Appended
  /\ path' = pdf_files[IndexOf(path) + 1]
  /\ pc' = "pages" /\ lines' = <<>> /\ page_words' = <<>> /\ idx' = 0
  /\ start_balance_set' = FALSE /\ previous_balance' = NoBalance /\ rows' = <<>>
  /\ tx' = NoTx /\ df_pdf' = <<>>
  /\ UNCHANGED <<pdf, pdf_files, excel, db, run>>

\* lines 218-224: the call for the last document returned; the loop ends
LastDocument ==
  /\ pc = "done" /\ IndexOf(path) = Len(pdf_files)
  /\ new_dfs' = Appended
  /\ pc' = "concat"
  /\ UNCHANGED <<lines, page_words, idx, start_balance_set, previous_balance, rows, tx, df_pdf>>
  /\ UNCHANGED <<pdf, pdf_files, excel, db, run, path>>

BatchBalanceStrs == {"0,00", "0,03"}

NextBatch ==
  \/ OpenPageOf(StatementPages, {<<>>})
  \/ OpenEmptyPage
  \/ SkipLine
  \/ MatchLineOf(ParseIds, {<<"0,03">>}, BatchBalanceStrs, ParseDescs)
  \/ EndPage
  \/ Finish
  \/ NextDocument
  \/ LastDocument

SpecBatch == InitBatch /\ [][NextBatch]_vars

-----------------------------------------------------------------------------
(* The merge: claims C1 - C5 *)

\* the concatenation the last run deduplicated: spreadsheet first, then the
\* documents in processing order
RunConcat == run.df_existing \o run.df_new

\* the run reached the merge (it did not return early at line 215 or 226)
Merged == run.called /\ run.df_new # <<>>

\* C1: after build_all_transactions has merged the documents with the
\* persisted ledger, no two rows of the ledger have the same TransactionID.
C1_UniqueTransactionID ==
  Merged =>
    \A i, j \in 1..Len(run.df_all) :
      i # j => run.df_all[i].TransactionID # run.df_all[j].TransactionID

\* a merge whose concatenation held an id both in the spreadsheet and in the
\* documents of two different files
C1_Witness ==
  /\ Merged
  /\ \E i \in 1..Len(run.df_existing) : \E j, k \in 1..Len(run.df_new) :
       /\ run.df_existing[i].TransactionID = run.df_new[j].TransactionID
       /\ run.df_new[j].TransactionID = run.df_new[k].TransactionID
       /\ run.df_new[j].SourceFile # run.df_new[k].SourceFile

\* C2: of the rows of the concatenation that share a TransactionID, the one
\* row of the ledger with that id is the last of them, with all its fields
\* (DateISO being the date line 255 parses from its Date).
C2_LastOccurrenceWins ==
  Merged =>
    \A i \in 1..Len(RunConcat) :
      (/\ \E j \in 1..Len(RunConcat) :
            j # i /\ RunConcat[j].TransactionID = RunConcat[i].TransactionID
       /\ \A j \in (i + 1)..Len(RunConcat) :
            RunConcat[j].TransactionID # RunConcat[i].TransactionID)
      => {r \in Range(run.df_all) : r.TransactionID = RunConcat[i].TransactionID}
           = {[RunConcat[i] EXCEPT !.DateISO = to_datetime(RunConcat[i].Date)]}

\* a merge in which a persisted row and a different newly parsed row share an
\* id, and the ledger holds the newly parsed one
C2_Witness ==
  /\ Merged
  /\ \E i \in 1..Len(run.df_existing) : \E j \in 1..Len(run.df_new) :
       /\ run.df_existing[i].TransactionID = run.df_new[j].TransactionID
       /\ run.df_existing[i].Description # run.df_new[j].Description
       /\ \E r \in Range(run.df_all) :
            /\ r.TransactionID = run.df_new[j].TransactionID
            /\ r.SourceFile = run.df_new[j].SourceFile
            /\ r.Description = run.df_new[j].Description

\* Python's < on the pair (DateISO, TransactionID): every comparison with NaT
\* is false
PairLess(a, b) ==
  /\ a.DateISO # NaT /\ b.DateISO # NaT
  /\ \/ a.DateISO < b.DateISO
     \/ a.DateISO = b.DateISO /\ StrLess(a.TransactionID, b.TransactionID)

\* C3 as stated: every two consecutive rows of the ledger are strictly
\* ascending by the pair (parsed date, TransactionID).
C3_StrictlyOrdered ==
  Merged =>
    \A i \in 1..(Len(run.df_all) - 1) : PairLess(run.df_all[i], run.df_all[i + 1])

\* C3 amended: the rows whose Date parses come first, strictly ascending by
\* (parsed date, TransactionID); the rows whose Date does not parse follow
\* them, strictly ascending by TransactionID.
C3_OrderedParsedThenUnparsed ==
  Merged =>
    \A i \in 1..(Len(run.df_all) - 1) :
      LET a == run.df_all[i]
          b == run.df_all[i + 1]
      IN  /\ a.DateISO = to_datetime(a.Date) /\ b.DateISO = to_datetime(b.Date)
          /\ \/ PairLess(a, b)
             \/ a.DateISO # NaT /\ b.DateISO = NaT
             \/ /\ a.DateISO = NaT /\ b.DateISO = NaT
                /\ StrLess(a.TransactionID, b.TransactionID)

\* a ledger of three rows: two of different parsed dates whose Date strings
\* order the other way, then one whose Date does not parse
C3_Witness ==
  /\ Merged
  /\ Len(run.df_all) >= 3
  /\ \E i \in 1..(Len(run.df_all) - 2) :
       /\ run.df_all[i].Date = D_JUL
       /\ run.df_all[i + 1].Date = D_AUG
       /\ run.df_all[i + 2].DateISO = NaT

\* no TransactionID occurs in more than one document of the folder
NoSharedId ==
  \A d1, d2 \in DocNames : d1 # d2 => Ids(pdf[d1]) \cap Ids(pdf[d2]) = {}

\* C5: when no TransactionID occurs in more than one document, the ledger
\* the run built is the ledger every other processing order of the same
\* documents builds.
C5_OrderInsensitive ==
  (run.called /\ NoSharedId) =>
    \A p \in Perms(Range(run.files)) :
      build_all_transactions(p, pdf, run.xl) = run.df_all

\* a merge of two non-empty documents without a common id, one of which
\* re-parses an id of the spreadsheet
C5_Witness ==
  /\ Merged /\ NoSharedId
  /\ Len(run.files) = 2
  /\ \A d \in DocNames : pdf[d] # <<>>
  /\ Ids(run.df_existing) \cap Ids(run.df_new) # {}

\* C4 as stated: a run that finds the spreadsheet the previous run wrote and
\* the same documents in the same order builds the previous run's ledger.
C4_Idempotent ==
  [][(/\ run.called /\ run.saved /\ run.df_all # <<>>
      /\ run.files = pdf_files /\ pdf_files' = pdf_files)
     => run'.df_all = run.df_all]_vars

-----------------------------------------------------------------------------
(* The parse of one document: claims C6 - C10 *)

\* the record the last transaction line emitted, and the numbers of its
\* reconciliation
LastRow == rows[Len(rows)]
LastDelta == to_float(LastRow.BalanceRaw) - tx.previous[1]
LastMagnitude == Abs(to_float(LastRow.AmountRaw))
HasPrevious == tx.matched /\ tx.previous # NoBalance

\* the provisional sign: the layout sign if there is one, else the sign of
\* column presence
LastProvisionalSign ==
  IF tx.layout_sign # NoSign THEN tx.layout_sign ELSE tx.column_sign

\* C6: every record of the DataFrame parse_single_pdf returns has AmountSign
\* +1 or -1 and Amount equal to the magnitude of AmountRaw times AmountSign.
C6_SignAndAmount ==
  \A i \in 1..Len(df_pdf) :
    /\ df_pdf[i].AmountSign \in {1, -1}
    /\ df_pdf[i].Amount = Abs(to_float(df_pdf[i].AmountRaw)) * df_pdf[i].AmountSign

\* a returned DataFrame with a debit of non-zero amount and a credit
C6_Witness ==
  /\ pc = "done"
  /\ \E i, j \in 1..Len(df_pdf) :
       /\ df_pdf[i].AmountSign = -1 /\ df_pdf[i].Amount < 0
       /\ df_pdf[j].AmountSign = 1 /\ df_pdf[j].Amount > 0

\* C7 as stated: for every emitted record with a previous balance, the
\* record's balance minus the previous balance equals its Amount within 0.01.
C7_DeltaEqualsAmount ==
  HasPrevious => Abs(LastDelta - AmountOf(LastRow)) <= 1

\* C7 amended: for every emitted record with a previous balance whose delta
\* passes the test of line 171 against the matched magnitude, the record's
\* balance minus the previous balance equals its Amount within 0.01.
C7_DeltaEqualsAmountWhenReconciled ==
  (HasPrevious /\ WithinTolerance(LastDelta, LastMagnitude))
    => Abs(LastDelta - AmountOf(LastRow)) <= 1

\* a second record of a document whose delta from the first record's balance
\* matches its amount and contradicts its provisional sign
C7_Witness ==
  /\ HasPrevious /\ Len(rows) >= 2
  /\ tx.previous = <<to_float(rows[Len(rows) - 1].BalanceRaw)>>
  /\ WithinTolerance(LastDelta, LastMagnitude)
  /\ LastMagnitude > 0
  /\ LastDelta < 0 /\ LastProvisionalSign = 1

\* C8: when a previous balance exists and the magnitude of the delta (balance
\* minus previous balance) is within 0.01 of the matched magnitude, the
\* record's Amount is the delta itself, in sign and in magnitude, whatever the
\* provisional sign was.
C8_AmountIsDelta ==
  (HasPrevious /\ Abs(Abs(LastDelta) - LastMagnitude) <= 1)
    => AmountOf(LastRow) = LastDelta

\* the case of C9: no previous balance, or a delta whose magnitude is more
\* than 0.01 away from the matched magnitude
NotReconcilable ==
  /\ tx.matched
  /\ \/ tx.previous = NoBalance
     \/ Abs(Abs(LastDelta) - LastMagnitude) > 1

\* C9: when no previous balance exists, or the magnitude of the delta differs
\* from the matched magnitude by more than 0.01, the record's AmountSign is
\* the provisional sign and its Amount the matched magnitude times that sign.
C9_ProvisionalKept ==
  NotReconcilable =>
    /\ LastRow.AmountSign = LastProvisionalSign
    /\ AmountOf(LastRow) = LastMagnitude * LastProvisionalSign

C18_PreviousIsPrecedingBalance ==
  tx.matched =>
    IF Len(rows) >= 2
    THEN tx.previous = <<to_float(rows[Len(rows) - 1].BalanceRaw)>>
    ELSE (tx.previous = NoBalance) <=> ~start_balance_set

-----------------------------------------------------------------------------
(* Continuation lines: claims C11 and C17 *)

\* the step is the loop body of a matched transaction line
EmitsRecord == pc = "scan" /\ Len(rows') = Len(rows) + 1

\* the parts of a description that come from continuation lines
ContinuationParts(description) ==
  SelectSeq(description, LAMBDA part : part[1] # "desc")

\* C11: a continuation line that is "/" after stripping contributes no part
\* to the Description of the record emitted, and the other lines absorbed
\* (the non-blank lines between the transaction line and the line where the
\* scan resumes) are its parts, in their order on the page.
C11_SlashNeverAppended ==
  [][EmitsRecord =>
       LET parts == ContinuationParts(rows'[Len(rows')].Description)
           absorbed == {k \in (idx + 1)..(idx' - 1) : lines[k] \notin {"BLANK", "SLASH"}}
       IN  /\ \A i \in 1..Len(parts) :
                \E k \in absorbed : parts[i] = LineText(k) /\ lines[k] # "SLASH"
           /\ \A k \in absorbed : \E i \in 1..Len(parts) : parts[i] = LineText(k)
           /\ \A i, j \in 1..Len(parts) : i < j => parts[i][2] < parts[j][2]
           /\ Len(parts) = Cardinality(absorbed)]_vars

\* a record that absorbed a "/" line and the text line after it
C11_Witness ==
  /\ tx.matched /\ pc = "scan"
  /\ lines = <<"TX", "SLASH", "TEXT">> /\ idx = 4
  /\ rows[Len(rows)].Description = <<(<<"desc", "NAKUP">>), LineText(3)>>

\* the first line after position p that is a transaction line or holds a
\* footer marker; the position after the last line if there is none
BoundaryAfter(p) ==
  LET stops == {k \in (p + 1)..Len(lines) : lines[k] \in {"TX", "FOOTER"}}
  IN  IF stops = {} THEN Len(lines) + 1
      ELSE CHOOSE k \in stops : \A l \in stops : k <= l

\* the transaction lines the scan passes in the step
TransactionLinesPassed == {k \in idx..(idx' - 1) : lines[k] = "TX"}

-----------------------------------------------------------------------------
(* The run and its sinks: claims C12 - C14 *)

\* build_all_transactions over the documents of the folder other than bad
LedgerWithout(bad) ==
  build_all_transactions(SelectSeq(pdf_files, LAMBDA f : f # bad), pdf, excel)

\* C12: when opening or extracting one document fails during a run, the
\* document is skipped: the records of the other documents are still merged
\* and written to the table and the spreadsheet.
C12_FailedDocumentSkipped ==
  [][\A bad \in DocNames :
       (MainOpenFailsAt(bad) /\ LedgerWithout(bad) # <<>>)
         => /\ db' = [exists |-> TRUE, rows |-> LedgerWithout(bad)]
            /\ excel' = [exists |-> TRUE, rows |-> to_excel(LedgerWithout(bad))]]_vars

\* the step is a run of main() that reached to_excel and did not write the
\* spreadsheet
BackupWriteFailed ==
  /\ pc = "idle"
  /\ run' = RunOf(FALSE)
  /\ run'.df_all # <<>>

\* C13: whenever the write of the spreadsheet fails, the table transactions
\* is still written with the full merged ledger in the same run.
C13_TableWrittenWhenBackupFails ==
  [][BackupWriteFailed => db' = [exists |-> TRUE, rows |-> run'.df_all]]_vars

\* the step is a run of main() that returned
MainReturned ==
  /\ pc = "idle"
  /\ run' # run
  /\ run' = RunOf(TRUE) \/ run' = RunOf(FALSE)

\* C14: after every run of main() the table transactions holds exactly the
\* ledger the run computed, nothing carried over from its earlier content,
\* also when the folder has no documents or no document has a transaction.
C14_TableIsLedgerOfRun ==
  [][MainReturned => db'.rows = run'.df_all]_vars

-----------------------------------------------------------------------------
(* Documents parsed one after another: claim C15 *)

\* the first record of the document being parsed, emitted on a page read
\* before any opening-balance line of the document
FirstRecordWithoutOpening ==
  tx.matched /\ Len(rows) = 1 /\ ~start_balance_set

\* C15: the records parse_single_pdf produces for a document depend only on
\* the document: whatever was parsed before it, the record buffer holds
\* records of this document only, each DataFrame kept holds the records of
\* one document, and the first record of a document without opening balance
\* is reconciled against no balance and keeps its provisional sign.
C15_DocumentsIndependent ==
  /\ \A i \in 1..Len(rows) : rows[i].SourceFile = path
  /\ \A i \in 1..Len(df_pdf) : df_pdf[i].SourceFile = path
  /\ \A k \in 1..Len(new_dfs) : \A i, j \in 1..Len(new_dfs[k]) :
       new_dfs[k][i].SourceFile = new_dfs[k][j].SourceFile
  /\ \A k, l \in 1..Len(new_dfs) :
       k # l => new_dfs[k][1].SourceFile # new_dfs[l][1].SourceFile
  /\ FirstRecordWithoutOpening =>
       /\ tx.previous = NoBalance
       /\ rows[1].AmountSign = FinalSign(tx.raw_amount_value * tx.amount_sign)

\* the second document's first record, a credit 0,03 with balance 0,00, after
\* a first document that ended with balance 0,03: the record stays a credit
C15_Witness ==
  /\ new_dfs # <<>> /\ path = pdf_files[2]
  /\ new_dfs[1][Len(new_dfs[1])].BalanceRaw = "0,03"
  /\ FirstRecordWithoutOpening
  /\ rows[1].BalanceRaw = "0,00" /\ rows[1].AmountRaw = "0,03"
  /\ rows[1].AmountSign = 1

-----------------------------------------------------------------------------
(* The layout resolver: claim C16 *)

\* the id token and its row: the words within 1.0 vertical unit of it
HasIdToken == \E i \in 1..Len(page_words) : page_words[i].text = <<"id", A_ID>>
IdToken ==
  page_words[CHOOSE i \in 1..Len(page_words) :
               /\ page_words[i].text = <<"id", A_ID>>
               /\ \A j \in 1..(i - 1) : page_words[j].text # <<"id", A_ID>>]
OnIdRow(w) == Abs(w.top - IdToken.top) <= 1

\* the balance tokens of the row
BalanceTokens ==
  {j \in 1..Len(page_words) :
     OnIdRow(page_words[j]) /\ page_words[j].text = <<"num", tx.balance_str>>}

\* the qualifying words: decimal-looking words of the row whose text is the
\* matched amount token and which are strictly left of the balance token (of
\* any, should the row have none)
QualifyingWords ==
  {i \in 1..Len(page_words) :
     /\ OnIdRow(page_words[i])
     /\ page_words[i].text = <<"num", tx.amount_str>>
     /\ AMOUNT_FIELD_PATTERN(tx.amount_str)
     /\ \/ BalanceTokens = {}
        \/ \E j \in BalanceTokens : page_words[i].x0 < page_words[j].x0}

\* C16: the resolver returns -1 exactly when the row of the id token has a
\* qualifying word left of the column boundary 360, +1 when the leftmost
\* qualifying word is at or right of the boundary, and None when the id
\* token, the row or a qualifying word is missing.
C16_LayoutSign ==
  pc = "returned" =>
    tx.layout_sign =
      (IF ~HasIdToken \/ QualifyingWords = {} THEN NoSign
       ELSE IF \E i \in QualifyingWords : page_words[i].x0 < COLUMN_SPLIT_X THEN -1
       ELSE 1)

====
